---- MODULE Spec2Model ----
(***************************************************************************)
(* A model of exif-headliner.py: the path inferencer                       *)
(* (extract_year_and_headline), the template reconciler (update_metadata)  *)
(* and the checkpointed directory walk (traverse_and_update).              *)
(*                                                                         *)
(* Text is a sequence of atoms.  An atom is one character, except that the *)
(* two placeholders "{year}" and "{subdir_text}", the namespace prefixes   *)
(* "XMP-", "Iptc4xmpCore:" and "photoshop:" and the reserved key           *)
(* "SourceFile" are single atoms, so that `in`, str.replace and            *)
(* str.startswith act on whole occurrences.                                *)
(* Python values are tagged records [t |-> tag, v |-> payload].            *)
(***************************************************************************)
EXTENDS Integers, Sequences, FiniteSets, TLC

VARIABLES
    parts,      \* extract_year_and_headline: file_path.parts
    year,       \* inferred year (NoneV or a string value)
    headline,   \* inferred headline (NoneV or a string value)
    ipc,        \* position of the inferencer run: "start" | "done"
    template,   \* update_metadata: the template, a sequence of <<key, value>>
    metadata,   \* the file's current metadata, a sequence of <<key, value>>
    updates,    \* the patch computed by the last run of update_metadata
    prev,       \* the patch of the run before it
    rpc,        \* "idle" | "start" | "done" | "raised" | "written" | "done2" | "raised2"
    wpc,        \* traverse_and_update: "idle" | "walk" | "files" | "crashed"
    stack,      \* directories os.walk has still to yield, next first
    cur,        \* the directory whose files are being processed
    idx,        \* index of the next file of cur
    markers,    \* directories that hold the checkpoint file
    passed,     \* files that have been passed to update_metadata, in any run
    fileTags,   \* the tags stored in each eligible file
    debug,      \* args.debug of the current run
    current,    \* args.current of the current run
    runs        \* number of runs started

----------------------------------------------------------------------------
(* Python values *)

NoneV == [t |-> "none", v |-> <<>>]

Str(s) == [t |-> "str", v |-> s]

Num(n) == [t |-> "num", v |-> n]

List(l) == [t |-> "list", v |-> l]

Dict(d) == [t |-> "dict", v |-> d]

IsStr(x) == x.t = "str"

IsList(x) == x.t = "list"

IsDict(x) == x.t = "dict"

\* Python truthiness of a value: None, "", [], {} and 0 are false.
Truthy(x) ==
    CASE x.t = "none" -> FALSE
      [] x.t = "str"  -> x.v # <<>>
      [] x.t = "list" -> x.v # <<>>
      [] x.t = "dict" -> DOMAIN x.v # {}
      [] x.t = "num"  -> x.v # 0

----------------------------------------------------------------------------
(* extract_year_and_headline *)

Digits == {"0", "1", "2", "3", "4", "5", "6", "7", "8", "9"}

SepChars == {" ", "_", "-"}

\* \d{n} at positions a..b of s
AllDigits(s, a, b) == Len(s) >= b /\ \A i \in a..b : s[i] \in Digits

\* length of the longest prefix of s made of separator characters
SepRun(s) ==
    LET ok(n) == \A i \in 1..n : s[i] \in SepChars
        cand  == {n \in 0..Len(s) : ok(n)}
    IN  CHOOSE n \in cand : \A m \in cand : m <= n

\* group 2 of  [ _-]+(.+)  matched at the start of `rest`; <<>> when the
\* pattern does not match.  [ _-]+ is greedy and gives one character back
\* when it would otherwise leave nothing for (.+).
TrailingText(rest) ==
    LET n == SepRun(rest)
    IN  IF n = 0 \/ Len(rest) < 2 THEN <<>>
        ELSE IF Len(rest) > n THEN SubSeq(rest, n + 1, Len(rest))
        ELSE SubSeq(rest, n, n)

\* re.match(r"(\d{4})", p)
MatchBare(p) == AllDigits(p, 1, 4)

\* re.match(r"(\d{4})-\d{2}-\d{2}(?:[ _-]+(.+))?", p)
MatchDated(p) ==
    /\ Len(p) >= 10
    /\ AllDigits(p, 1, 4) /\ p[5] = "-"
    /\ AllDigits(p, 6, 7) /\ p[8] = "-"
    /\ AllDigits(p, 9, 10)

\* a variant that takes exactly one separator character after the date
DatedTextBug(p) == SubSeq(p, 12, Len(p))

\* m.group(2) of the dated pattern (<<>> when the optional group is unset)
DatedText(p) == TrailingText(SubSeq(p, 11, Len(p)))

\* group 2 of re.match(r"(\d{4})[ _-]+(.+)", p)
YearText(p) == TrailingText(SubSeq(p, 5, Len(p)))

MatchYearText(p) == AllDigits(p, 1, 4) /\ YearText(p) # <<>>

\* re.match(r"^\d{4}$", s)
MatchOnlyYear(s) == Len(s) = 4 /\ AllDigits(s, 1, 4)

YearOf(p) == Str(SubSeq(p, 1, 4))

\* for p in parts: first loop (lines 62-65), from segment i on
RECURSIVE BarePass(_, _, _)
BarePass(ps, i, r) ==
    IF i > Len(ps) THEN r
    ELSE BarePass(ps, i + 1,
            IF MatchBare(ps[i]) THEN [r EXCEPT !.year = YearOf(ps[i])] ELSE r)

\* second loop (lines 66-70)
RECURSIVE DatedPass(_, _, _)
DatedPass(ps, i, r) ==
    IF i > Len(ps) THEN r
    ELSE DatedPass(ps, i + 1,
            IF MatchDated(ps[i])
            THEN [year |-> YearOf(ps[i]),
                  headline |-> IF DatedText(ps[i]) # <<>>
                               THEN Str(DatedText(ps[i])) ELSE NoneV]
            ELSE r)

\* a variant without the `not headline` test
YearTextFiresBug(p, r) == MatchYearText(p)

\* the guard of line 73
YearTextFires(p, r) == MatchYearText(p) /\ ~Truthy(r.headline)

\* third loop (lines 71-75)
RECURSIVE YearTextPass(_, _, _)
YearTextPass(ps, i, r) ==
    IF i > Len(ps) THEN r
    ELSE YearTextPass(ps, i + 1,
            IF YearTextFires(ps[i], r)
            THEN [year |-> YearOf(ps[i]), headline |-> Str(YearText(ps[i]))]
            ELSE r)

\* a variant that takes parts[-1] as the candidate
FallbackBug(ps, r) ==
    IF ~Truthy(r.headline) /\ Len(ps) > 1 /\ ~MatchOnlyYear(ps[Len(ps)])
    THEN [r EXCEPT !.headline = Str(ps[Len(ps)])]
    ELSE r

\* lines 76-79
Fallback(ps, r) ==
    IF ~Truthy(r.headline) /\ Len(ps) > 1 /\ ~MatchOnlyYear(ps[Len(ps) - 1])
    THEN [r EXCEPT !.headline = Str(ps[Len(ps) - 1])]
    ELSE r

extract_year_and_headline(ps) ==
    LET r0 == [year |-> NoneV, headline |-> NoneV]
        r1 == BarePass(ps, 1, r0)
        r2 == DatedPass(ps, 1, r1)
        r3 == YearTextPass(ps, 1, r2)
    IN  Fallback(ps, r3)

----------------------------------------------------------------------------
(* update_metadata: the reconciliation of lines 108-176 *)

PhYear == "{year}"

PhSubdir == "{subdir_text}"

\* a in s, for a single atom a
Contains(s, a) == \E i \in 1..Len(s) : s[i] = a

\* s.replace(a, r), for a single atom a
RECURSIVE Replace(_, _, _)
Replace(s, a, r) ==
    IF s = <<>> THEN <<>>
    ELSE (IF Head(s) = a THEN r ELSE <<Head(s)>>) \o Replace(Tail(s), a, r)

\* ordered dict as a sequence of <<key, value>> with distinct keys
Keys(d) == {d[i][1] : i \in 1..Len(d)}

Has(d, k) == k \in Keys(d)

Get(d, k) == d[CHOOSE i \in 1..Len(d) : d[i][1] = k][2]

\* d[k] = v
Put(d, k, v) ==
    IF Has(d, k)
    THEN [i \in 1..Len(d) |-> IF d[i][1] = k THEN <<k, v>> ELSE d[i]]
    ELSE Append(d, <<k, v>>)

\* lines 110-114: a string holding a placeholder counts as not set
CleanValue(value) ==
    IF IsStr(value) /\ (Contains(value.v, PhSubdir) \/ Contains(value.v, PhYear))
    THEN NoneV ELSE value

Clean(md) == [i \in 1..Len(md) |-> <<md[i][1], CleanValue(md[i][2])>>]

\* str.lower() on the letters that occur in the model
LowerAtom(a) ==
    CASE a = "H" -> "h" [] a = "L" -> "l" [] a = "C" -> "c" [] a = "I" -> "i"
      [] a = "R" -> "r" [] a = "M" -> "m" [] a = "E" -> "e" [] a = "V" -> "v"
      [] a = "G" -> "g" [] a = "P" -> "p" [] a = "J" -> "j" [] a = "X" -> "x"
      [] a = "XMP-" -> "xmp-" [] a = "Iptc4xmpCore:" -> "iptc4xmpcore:"
      [] a = "SourceFile" -> "sourcefile"
      [] OTHER -> a

Lower(s) == [i \in 1..Len(s) |-> LowerAtom(s[i])]

\* a variant that lower-cases without stripping the prefixes
NormalizeKeyBug(k) == Lower(k)

\* lines 116 and 123
NormalizeKey(k) ==
    Lower(Replace(Replace(Replace(k, "XMP-", <<>>), "Iptc4xmpCore:", <<>>),
                  "photoshop:", <<>>))

\* normalized_metadata.get(nk): of the keys that normalize to nk the last wins
NormGet(md, nk) ==
    LET hits == {i \in 1..Len(md) : NormalizeKey(md[i][1]) = nk}
    IN  IF hits = {} THEN NoneV
        ELSE md[CHOOSE i \in hits : \A j \in hits : j <= i][2]

\* lines 127-128
Unwrap(value) == IF IsList(value) /\ Len(value.v) = 1 THEN value.v[1] ELSE value

\* x is None or x == "" or x == []
IsEmpty(x) == x.t = "none" \/ ((IsStr(x) \/ IsList(x)) /\ x.v = <<>>)

\* lines 142-145, 157-160, 167-170
Substitute(value, y, h) ==
    LET v1 == IF Truthy(y) /\ IsStr(value) /\ Contains(value.v, PhYear)
              THEN Str(Replace(value.v, PhYear, y.v)) ELSE value
    IN  IF Truthy(h) /\ IsStr(v1) /\ Contains(v1.v, PhSubdir)
        THEN Str(Replace(v1.v, PhSubdir, h.v)) ELSE v1

NoPlaceholder(s) == ~Contains(s, PhYear) /\ ~Contains(s, PhSubdir)

\* a variant that stages whatever the substitution produced
StagedBug(default_value, y, h) ==
    Substitute(default_value, y, h)

\* lines 141-149 and 154-162: the substituted value when nothing is left to
\* substitute, else the template's own value
Staged(default_value, y, h) ==
    LET value == Substitute(default_value, y, h)
    IN  IF IsStr(value) /\ NoPlaceholder(value.v) THEN value ELSE default_value

\* lines 164-175
RECURSIVE StagedList(_, _, _)
StagedList(items, y, h) ==
    IF items = <<>> THEN <<>>
    ELSE LET value == Substitute(Head(items), y, h)
             rest  == StagedList(Tail(items), y, h)
         IN  IF IsStr(value) /\ NoPlaceholder(value.v) THEN <<value>> \o rest
             ELSE IF ~IsStr(value) THEN <<Head(items)>> \o rest
             ELSE rest

\* lines 132-136
ExistingStruct(md, key) ==
    LET direct == IF Has(md, key) THEN Get(md, key) ELSE Dict(<<>>)
    IN  IF direct.t = "none" /\ Head(key) = "XMP-"
        THEN (IF Has(md, Tail(key)) THEN Get(md, Tail(key)) ELSE Dict(<<>>))
        ELSE direct

\* existing_struct.get(sub_key)
SubGet(struct, sub_key) ==
    IF sub_key \in DOMAIN struct.v THEN struct.v[sub_key] ELSE NoneV

\* line 140
SubKeyStaged(existing, sub_key) == IsEmpty(SubGet(existing, sub_key))

\* lines 137-149: struct_to_update
StructToUpdate(default_value, existing, y, h) ==
    LET staged == {k \in DOMAIN default_value.v : SubKeyStaged(existing, k)}
    IN  [k \in staged |-> Staged(default_value.v[k], y, h)]

\* line 139 raises AttributeError when existing_struct has no .get
StructRaises(default_value, existing) ==
    DOMAIN default_value.v # {} /\ ~IsDict(existing)

\* a variant that overwrites whatever the field holds
FieldQualifiesBug(current_value) == TRUE

\* line 153
FieldQualifies(current_value) == IsEmpty(current_value)

\* lines 154-175: value_to_update
ValueToUpdate(default_value, y, h) ==
    IF IsStr(default_value) THEN Staged(default_value, y, h)
    ELSE IF IsList(default_value) THEN List(StagedList(default_value.v, y, h))
    ELSE default_value

\* the loop of lines 120-176 from template entry i on; md is the cleaned
\* metadata and acc the updates staged so far
RECURSIVE ReconcileFrom(_, _, _, _, _, _)
ReconcileFrom(tpl, i, md, y, h, acc) ==
    IF i > Len(tpl) THEN [raised |-> FALSE, updates |-> acc]
    ELSE
      LET key           == tpl[i][1]
          default_value == tpl[i][2]
          current_value == Unwrap(NormGet(md, NormalizeKey(key)))
          existing      == ExistingStruct(md, key)
      IN  IF key = <<"SourceFile">> THEN ReconcileFrom(tpl, i + 1, md, y, h, acc)
          ELSE IF IsDict(default_value) THEN
              IF StructRaises(default_value, existing)
              THEN [raised |-> TRUE, updates |-> acc]
              ELSE LET stu == StructToUpdate(default_value, existing, y, h)
                   IN  ReconcileFrom(tpl, i + 1, md, y, h,
                           IF DOMAIN stu # {} THEN Append(acc, <<key, Dict(stu)>>)
                           ELSE acc)
          ELSE IF FieldQualifies(current_value)
          THEN ReconcileFrom(tpl, i + 1, md, y, h,
                   Append(acc, <<key, ValueToUpdate(default_value, y, h)>>))
          ELSE ReconcileFrom(tpl, i + 1, md, y, h, acc)

\* lines 108-176 of update_metadata, given what the read returned
Reconciled(tpl, md, y, h) == ReconcileFrom(tpl, 1, Clean(md), y, h, <<>>)

\* dict.update(e), line 99
RECURSIVE DictUpdate(_, _)
DictUpdate(d, e) ==
    IF e = <<>> THEN d
    ELSE DictUpdate(Put(d, Head(e)[1], Head(e)[2]), Tail(e))

\* the write of lines 184-188 when exiftool succeeds: each patched field is
\* set to its patch value
ApplyPatch(md, patch) == DictUpdate(md, patch)

----------------------------------------------------------------------------
(* traverse_and_update over a small archive *)

\* needle in hay
SubstringOf(needle, hay) ==
    \E i \in 1..(Len(hay) - Len(needle) + 1) :
        SubSeq(hay, i, i + Len(needle) - 1) = needle

EndsWith(s, suf) ==
    Len(s) >= Len(suf) /\ SubSeq(s, Len(s) - Len(suf) + 1, Len(s)) = suf

\* lines 231-234
Extensions ==
    { <<".", "n", "e", "f">>, <<".", "c", "r", "3">>, <<".", "p", "s", "d">>,
      <<".", "j", "p", "g">>, <<".", "j", "p", "e", "g">>, <<".", "p", "n", "g">>,
      <<".", "t", "i", "f">>, <<".", "t", "i", "f", "f">>, <<".", "h", "e", "i", "c">>,
      <<".", "h", "e", "i", "f">>, <<".", "d", "n", "g">>, <<".", "a", "v", "i", "f">>,
      <<".", "m", "p", "4">>, <<".", "m", "4", "a">> }

Eligible(file) == \E e \in Extensions : EndsWith(Lower(file), e)

\* the archive: directory ids, their names, sub-directories and files
DirIds == {"root", "trip", "day", "recv", "mob"}

DirName(d) ==
    CASE d = "trip" -> <<"2", "0", "0", "6", " ", "V">>
      [] d = "day"  -> <<"2", "0", "0", "8", "-", "0", "4", "-", "0", "5", "_", "-", "G">>
      [] d = "recv" -> <<"R", "e", "c", "e", "i", "v", "e", "d">>
      [] d = "mob"  -> <<"M", "o", "b", "i", "l", "e">>

Parent(d) == CASE d = "day" -> "trip" [] OTHER -> "root"

Subdirs(d) ==
    CASE d = "root" -> <<"trip", "recv", "mob">>
      [] d = "trip" -> <<"day">>
      [] OTHER -> <<>>

Files(d) ==
    CASE d = "root" -> << <<"r", ".", "J", "P", "G">> >>
      [] d = "trip" -> << <<"a", ".", "j", "p", "g">>, <<"a", ".", "x", "m", "p">>,
                          <<"b", ".", "m", "o", "v">> >>
      [] d = "day"  -> << <<"c", ".", "p", "n", "g">> >>
      [] d = "recv" -> << <<"d", ".", "j", "p", "g">> >>
      [] d = "mob"  -> << <<"e", ".", "j", "p", "g">> >>

\* relative_path.parts
RECURSIVE RelParts(_)
RelParts(d) == IF d = "root" THEN <<>> ELSE Append(RelParts(Parent(d)), DirName(d))

\* str(relative_path)
RECURSIVE JoinParts(_)
JoinParts(ps) ==
    IF Len(ps) = 1 THEN ps[1]
    ELSE ps[1] \o <<"/">> \o JoinParts(Tail(ps))

RelStr(d) == IF d = "root" THEN <<".">> ELSE JoinParts(RelParts(d))

Received == <<"r", "e", "c", "e", "i", "v", "e", "d">>

Mobile == <<"m", "o", "b", "i", "l", "e">>

Edmond == <<"e", "d", "m", "o", "n", "d">>

\* line 214
SkipReceived(d) == SubstringOf(Received, Lower(RelStr(d)))

\* lines 219-220
SkipMobile(d) ==
    SubstringOf(Mobile, Lower(RelStr(d))) /\ ~SubstringOf(Edmond, Lower(RelStr(d)))

\* is_directory_completed, lines 251-256
is_directory_completed(d) == d \in markers

FilesOf(d) == {Files(d)[i] : i \in 1..Len(Files(d))}

FileIds == UNION {{<<d, f>> : f \in FilesOf(d)} : d \in DirIds}

\* file_path.with_suffix(".xmp").name, line 88
WithSuffixXmp(name) ==
    LET dots == {i \in 1..Len(name) : name[i] = "."}
        stem == IF dots = {} THEN name
                ELSE SubSeq(name, 1, (CHOOSE i \in dots : \A j \in dots : j <= i) - 1)
    IN  stem \o <<".", "x", "m", "p">>

\* the parts handed to extract_year_and_headline, lines 238-241
CwdParts == << <<"/">>, <<"s", "r", "v">> >>

PartsOf(d, file, cwdRoot) ==
    IF cwdRoot THEN CwdParts \o Append(RelParts(d), file)
    ELSE Append(RelParts(d), file)

\* what exiftool prints for the files of one read: the file's tags, then the
\* sidecar's when there is one (lines 88-93)
ItemsRead(tags, d, file, sidecarTags) ==
    IF WithSuffixXmp(file) \in FilesOf(d) THEN <<tags, sidecarTags>> ELSE <<tags>>

\* lines 97-100
RECURSIVE MergeItems(_, _)
MergeItems(items, merged) ==
    IF items = <<>> THEN merged
    ELSE MergeItems(Tail(items), DictUpdate(merged, Head(items)))

ReadOutcomes == {"ok", "nonzero", "unparsable", "notfound"}

WriteOutcomes == {"ok", "nonzero", "notfound"}

\* get_current_metadata_from_cli, lines 87-103: FileNotFoundError is not
\* among the exceptions caught
ReadEscapes(outcome) == outcome = "notfound"

ReadResult(outcome, items) ==
    IF outcome = "ok" THEN MergeItems(items, <<>>) ELSE <<>>

----------------------------------------------------------------------------
(* Path segments the inferencer is run on *)

SegBare == <<"2", "0", "1", "0">>

SegBare2 == <<"1", "9", "9", "9">>

SegDatedV == <<"2", "0", "0", "6", "-", "0", "3", "-", "1", "2", " ", "V">>

SegDatedG == <<"2", "0", "0", "8", "-", "0", "4", "-", "0", "5", "_", "-", "G">>

SegDatedOnly == <<"2", "0", "0", "7", "-", "0", "1", "-", "0", "2">>

SegDatedGlued == <<"2", "0", "1", "1", "-", "0", "1", "-", "0", "1", "x">>

SegYearP == <<"2", "0", "0", "9", " ", "P">>

SegYearQ == <<"2", "0", "0", "5", "-", "Q">>

SegYearSep == <<"2", "0", "1", "2", " ">>

SegName == <<"P", "q">>

SegFile == <<"i", ".", "j", "p", "g">>

Segments ==
    {SegBare, SegBare2, SegDatedV, SegDatedG, SegDatedOnly, SegDatedGlued,
     SegYearP, SegYearQ, SegYearSep, SegName, SegFile}

MaxParts == 3

Paths == UNION {[1..n -> Segments] : n \in 1..MaxParts}

----------------------------------------------------------------------------
(* Templates and metadata the reconciler is run on *)

KeyHl == <<"H", "l">>

KeyXmpHl == <<"XMP-", "H", "l">>

KeyCi == <<"C", "i">>

KeyXmpCi == <<"XMP-", "C", "i">>

KeySourceFile == <<"SourceFile">>

StrLit == Str(<<"a">>)

StrBoth == Str(<<PhYear, " ", PhSubdir>>)

StrSubdir == Str(<<PhSubdir>>)

StrYear == Str(<<PhYear>>)

ListMixed == List(<<StrSubdir, Str(<<"k">>), Num(1)>>)

ListSubdir == List(<<StrSubdir>>)

StructCiYr == Dict([City |-> StrLit, Yr |-> StrYear])

StructCi == Dict([City |-> StrSubdir])

StructCiZip == Dict([City |-> StrLit, Zip |-> Str(<<>>)])

StructYr == Dict([Yr |-> StrYear])

Templates ==
    { <<<<KeySourceFile, Str(<<"f">>)>>, <<KeyXmpHl, StrBoth>>>>,
      <<<<KeyHl, StrLit>>>>,
      <<<<KeyHl, ListMixed>>>>,
      <<<<KeyHl, ListSubdir>>>>,
      <<<<KeyXmpCi, StructCiYr>>>>,
      <<<<KeyCi, StructCi>>>>,
      <<<<KeyXmpHl, StrSubdir>>, <<KeyXmpCi, StructCi>>>>,
      <<<<KeyHl, StrLit>>, <<KeyXmpHl, StrYear>>>>,
      <<<<KeyXmpCi, StructCiZip>>, <<KeyCi, StructYr>>>> }

StrV == Str(<<"v">>)

StructHeld == Dict([City |-> Str(<<"p">>), Yr |-> Str(<<"y">>)])

StructPartial == Dict([City |-> Str(<<"p">>), Yr |-> Str(<<>>)])

StructOther == Dict([City |-> List(<<>>)])

\* what exiftool may report under each key
MetaEntries ==
    ({KeyHl} \X {NoneV, Str(<<>>), StrV, StrYear, List(<<>>), List(<<Str(<<>>)>>),
                 List(<<StrV, Str(<<"w">>)>>), StructHeld})
    \cup ({KeyXmpHl} \X {Str(<<>>), StrV})
    \cup ({KeyXmpCi} \X {NoneV, StrV, StrSubdir, List(<<StrV, Str(<<"w">>)>>),
                         StructHeld, StructPartial, StructOther})
    \cup ({KeyCi} \X {StrV, StructHeld, StructPartial})

MaxMeta == 2

\* the mappings of at most MaxMeta entries, keys distinct, in every order
Metadatas ==
    UNION { {m \in [1..n -> MetaEntries] :
                \A i, j \in 1..n : i # j => m[i][1] # m[j][1]} : n \in 0..MaxMeta }

Years == {NoneV, Str(<<"2", "0", "0", "6">>)}

Headlines == {NoneV, Str(<<"V">>)}

----------------------------------------------------------------------------
(* The inferencer as a state machine *)

ivars == <<parts, year, headline, ipc>>

rvars == <<template, metadata, updates, prev, rpc>>

wvars == <<wpc, stack, cur, idx, markers, passed, fileTags, debug, current, runs>>

vars == <<ivars, rvars, wvars>>

WalkIdle ==
    /\ wpc = "idle"
    /\ stack = <<>>
    /\ cur = "root"
    /\ idx = 1
    /\ markers = {}
    /\ passed = {}
    /\ fileTags = <<>>
    /\ debug = FALSE
    /\ current = FALSE
    /\ runs = 0

ReconcilerIdle ==
    /\ template = <<>>
    /\ metadata = <<>>
    /\ updates = <<>>
    /\ prev = <<>>
    /\ rpc = "idle"

InitInfer ==
    /\ parts \in Paths
    /\ year = NoneV
    /\ headline = NoneV
    /\ ipc = "start"
    /\ ReconcilerIdle
    /\ WalkIdle

Extract ==
    /\ ipc = "start"
    /\ LET r == extract_year_and_headline(parts)
       IN  year' = r.year /\ headline' = r.headline
    /\ ipc' = "done"
    /\ UNCHANGED <<parts, rvars, wvars>>

NextInfer == Extract

SpecInfer == InitInfer /\ [][NextInfer]_vars

----------------------------------------------------------------------------
(* The reconciler as a state machine: a file is reconciled, the patch is   *)
(* written, and the file is reconciled again on the next run.              *)

InitReconcile ==
    /\ parts = <<>>
    /\ ipc = "idle"
    /\ year \in Years
    /\ headline \in Headlines
    /\ template \in Templates
    /\ metadata \in Metadatas
    /\ updates = <<>>
    /\ prev = <<>>
    /\ rpc = "start"
    /\ WalkIdle

\* update_metadata on a readable file, up to line 176
Reconcile ==
    /\ rpc \in {"start", "written"}
    /\ LET r == Reconciled(template, metadata, year, headline)
       IN  /\ updates' = r.updates
           /\ rpc' = IF r.raised
                     THEN (IF rpc = "start" THEN "raised" ELSE "raised2")
                     ELSE (IF rpc = "start" THEN "done" ELSE "done2")
    /\ prev' = updates
    /\ UNCHANGED <<ivars, wvars, template, metadata>>

\* lines 177-191 with a writer that succeeds
Write ==
    /\ rpc = "done"
    /\ metadata' = ApplyPatch(metadata, updates)
    /\ rpc' = "written"
    /\ UNCHANGED <<ivars, wvars, template, updates, prev>>

NextReconcile == Reconcile \/ Write

SpecReconcile == InitReconcile /\ [][NextReconcile]_vars

----------------------------------------------------------------------------
(* The walk as a state machine: runs of the script over one archive, each  *)
(* of which finishes, dies of an uncaught exception or is interrupted.     *)

KeyKw == <<"K", "w">>

WalkTemplate ==
    <<<<KeySourceFile, Str(<<"f">>)>>, <<KeyXmpHl, StrBoth>>, <<KeyKw, ListSubdir>>>>

SidecarTags == <<<<KeyHl, Str(<<>>)>>>>

InitialTags(f) ==
    IF f[1] = "root" THEN <<<<KeyHl, StrV>>, <<KeyKw, List(<<StrV>>)>>>>
    ELSE IF f[1] = "trip" THEN <<<<KeyHl, StrV>>>>
    ELSE <<>>

MaxRuns == 2

InitWalk ==
    /\ parts = <<>> /\ year = NoneV /\ headline = NoneV /\ ipc = "idle"
    /\ ReconcilerIdle
    /\ wpc = "idle"
    /\ stack = <<>>
    /\ cur = "root"
    /\ idx = 1
    /\ markers = {}
    /\ passed = {}
    /\ fileTags = [f \in {g \in FileIds : Eligible(g[2])} |-> InitialTags(f)]
    /\ debug = FALSE
    /\ current = FALSE
    /\ runs = 0

\* __main__, lines 312-326: the target exists and the template loads
StartRun ==
    /\ wpc \in {"idle", "crashed"}
    /\ runs < MaxRuns
    /\ runs' = runs + 1
    /\ debug' \in BOOLEAN
    /\ current' \in BOOLEAN
    /\ wpc' = "walk"
    /\ stack' = <<"root">>
    /\ cur' = "root"
    /\ idx' = 1
    /\ UNCHANGED <<ivars, rvars, markers, passed, fileTags>>

\* __main__, lines 317-321: the target is missing or the template unreadable
StartFails ==
    /\ wpc \in {"idle", "crashed"}
    /\ runs < MaxRuns
    /\ runs' = runs + 1
    /\ wpc' = "idle"
    /\ UNCHANGED <<ivars, rvars, stack, cur, idx, markers, passed, fileTags,
                   debug, current>>

\* lines 200-223: os.walk yields the next directory; a completed or excluded
\* one is left at once and its sub-directories are pruned
EnterDir ==
    /\ wpc = "walk"
    /\ stack # <<>>
    /\ LET d == Head(stack)
       IN  IF is_directory_completed(d) \/ SkipReceived(d) \/ SkipMobile(d)
           THEN /\ stack' = Tail(stack)
                /\ UNCHANGED <<wpc, cur, idx>>
           ELSE /\ stack' = Tail(stack)
                /\ cur' = d
                /\ idx' = 1
                /\ wpc' = "files"
    /\ UNCHANGED <<ivars, rvars, markers, passed, fileTags, debug, current, runs>>

\* lines 225-234: a file that is not eligible is passed over
SkipFile ==
    /\ wpc = "files"
    /\ idx <= Len(Files(cur))
    /\ ~Eligible(Files(cur)[idx])
    /\ idx' = idx + 1
    /\ UNCHANGED <<ivars, rvars, wpc, stack, cur, markers, passed, fileTags,
                   debug, current, runs>>

\* lines 235-243 with update_metadata (lines 105-196) for one eligible file
ProcessFile ==
    /\ wpc = "files"
    /\ idx <= Len(Files(cur))
    /\ Eligible(Files(cur)[idx])
    /\ \E rd \in ReadOutcomes, wr \in WriteOutcomes :
        LET file == Files(cur)[idx]
            f    == <<cur, file>>
            inf  == extract_year_and_headline(PartsOf(cur, file, current))
            md   == ReadResult(rd, ItemsRead(fileTags[f], cur, file, SidecarTags))
            r    == Reconciled(WalkTemplate, md, inf.year, inf.headline)
        IN  /\ passed' = passed \cup {f}
            /\ IF ReadEscapes(rd) \/ r.raised
               THEN /\ wpc' = "crashed"
                    /\ UNCHANGED <<idx, fileTags>>
               ELSE /\ wpc' = wpc
                    /\ idx' = idx + 1
                    /\ fileTags' =
                         IF r.updates # <<>> /\ ~debug /\ wr = "ok"
                         THEN [fileTags EXCEPT ![f] = ApplyPatch(fileTags[f], r.updates)]
                         ELSE fileTags
    /\ UNCHANGED <<ivars, rvars, stack, cur, markers, debug, current, runs>>

\* lines 245-248 and mark_directory_completed, then os.walk descends
LeaveDir ==
    /\ wpc = "files"
    /\ idx > Len(Files(cur))
    /\ markers' = IF cur # "root" THEN markers \cup {cur} ELSE markers
    /\ stack' = Subdirs(cur) \o stack
    /\ wpc' = "walk"
    /\ UNCHANGED <<ivars, rvars, cur, idx, passed, fileTags, debug, current, runs>>

\* lines 328-329 and cleanup_checkpoints: the walk is over
Finish ==
    /\ wpc = "walk"
    /\ stack = <<>>
    /\ markers' = {}
    /\ wpc' = "idle"
    /\ UNCHANGED <<ivars, rvars, stack, cur, idx, passed, fileTags, debug, current,
                   runs>>

\* the process is killed between two steps
Interrupt ==
    /\ wpc \in {"walk", "files"}
    /\ wpc' = "idle"
    /\ UNCHANGED <<ivars, rvars, stack, cur, idx, markers, passed, fileTags, debug,
                   current, runs>>

NextWalk ==
    \/ StartRun \/ StartFails \/ EnterDir \/ SkipFile \/ ProcessFile
    \/ LeaveDir \/ Finish \/ Interrupt

SpecWalk == InitWalk /\ [][NextWalk]_vars

----------------------------------------------------------------------------
(* Claims about the inferencer.  What a segment "says" is written down     *)
(* here segment by segment, independently of the matching operators.       *)

\* segments that begin with YYYY-MM-DD
DatedSegs == {SegDatedV, SegDatedG, SegDatedOnly, SegDatedGlued}

\* segments of the form 'YYYY-MM-DD Headline'
DatedHeadlineSegs == {SegDatedV, SegDatedG}

\* segments of the form 'YYYY Text' that do not begin with a date
YearTextSegs == {SegYearP, SegYearQ}

\* bare 4-digit years
BareSegs == {SegBare, SegBare2}

\* segments no pass takes a headline from
NoTextSegs == {SegBare, SegBare2, SegYearSep, SegName, SegFile}

\* names that match none of the year patterns
NameSegs == {SegName, SegFile}

WrittenYear(p) == Str(<<p[1], p[2], p[3], p[4]>>)

WrittenText(p) ==
    CASE p = SegDatedV -> Str(<<"V">>)
      [] p = SegDatedG -> Str(<<"G">>)
      [] p = SegYearP  -> Str(<<"P">>)
      [] p = SegYearQ  -> Str(<<"Q">>)

IsLast(i, S) == parts[i] \in S /\ \A j \in (i + 1)..Len(parts) : parts[j] \notin S

IsFirst(i, S) == parts[i] \in S /\ \A j \in 1..(i - 1) : parts[j] \notin S

\* C4 as stated: whenever the path contains a segment 'YYYY-MM-DD Headline',
\* the result is that segment's year and headline, whatever the other
\* segments are.
C4_AnyDatedSegmentWins ==
    ipc = "done" =>
        \A i \in 1..Len(parts) :
            parts[i] \in DatedHeadlineSegs =>
                year = WrittenYear(parts[i]) /\ headline = WrittenText(parts[i])

\* C4 amended: when the last segment that begins with YYYY-MM-DD has the
\* form 'YYYY-MM-DD Headline', the result is that segment's year and headline.
C4_LastDatedSegmentWins ==
    ipc = "done" =>
        \A i \in 1..Len(parts) :
            IsLast(i, DatedSegs) /\ parts[i] \in DatedHeadlineSegs =>
                year = WrittenYear(parts[i]) /\ headline = WrittenText(parts[i])

\* two dated headlines and a later 'YYYY Text' segment: the last dated one wins
C4_Witness ==
    /\ ipc = "done"
    /\ parts = <<SegDatedG, SegDatedV, SegYearP>>
    /\ year = Str(<<"2", "0", "0", "6">>)
    /\ headline = Str(<<"V">>)

\* C5 as stated: with no dated segment, whenever the path contains a segment
\* 'YYYY Text' the result is that segment's year and text, also when there
\* are further 'YYYY Text' segments.
C5_AnyYearTextSegmentWins ==
    ipc = "done" /\ (\A j \in 1..Len(parts) : parts[j] \notin DatedSegs) =>
        \A i \in 1..Len(parts) :
            parts[i] \in YearTextSegs =>
                year = WrittenYear(parts[i]) /\ headline = WrittenText(parts[i])

\* C5 amended: with no segment beginning with a date, the result is the year
\* and text of the first 'YYYY Text' segment.
C5_FirstYearTextSegmentWins ==
    ipc = "done" /\ (\A j \in 1..Len(parts) : parts[j] \notin DatedSegs) =>
        \A i \in 1..Len(parts) :
            IsFirst(i, YearTextSegs) =>
                year = WrittenYear(parts[i]) /\ headline = WrittenText(parts[i])

\* a later bare year and a later 'YYYY Text' segment do not displace the first
C5_Witness ==
    /\ ipc = "done"
    /\ parts = <<SegYearQ, SegYearP, SegBare>>
    /\ year = Str(<<"2", "0", "0", "5">>)
    /\ headline = Str(<<"Q">>)

\* C6 as stated: a two-segment path [bare year, name] yields the year and the
\* name as headline; a single-segment path (a bare year, a name) yields no
\* headline.
C6_FallbackTakesSecondSegment ==
    ipc = "done" =>
        /\ (Len(parts) = 2 /\ parts[1] \in BareSegs /\ parts[2] \in NameSegs) =>
                year = Str(parts[1]) /\ headline = Str(parts[2])
        /\ (Len(parts) = 1 /\ parts[1] \in NoTextSegs) => headline = NoneV

\* C6 amended: when no segment matches the dated or the year-plus-text
\* pattern, the headline is the second-to-last segment unless that segment is
\* a bare year or the path has a single segment, in which cases it is absent;
\* so [year, name, file] yields the name and [year, name] yields no headline.
C6_FallbackTakesSecondToLast ==
    ipc = "done" /\ (\A j \in 1..Len(parts) : parts[j] \in NoTextSegs) =>
        /\ headline = IF Len(parts) >= 2 /\ parts[Len(parts) - 1] \notin BareSegs
                      THEN Str(parts[Len(parts) - 1]) ELSE NoneV
        /\ (Len(parts) \in {2, 3} /\ parts[1] \in BareSegs
              /\ \A j \in 2..Len(parts) : parts[j] \in NameSegs) =>
                year = Str(parts[1])

C6_Witness ==
    /\ ipc = "done"
    /\ parts = <<SegBare, SegName, SegFile>>
    /\ year = Str(SegBare)
    /\ headline = Str(SegName)

----------------------------------------------------------------------------
(* Claims about the reconciler.  Which keys name the same field, and which *)
(* values count as set, are written down here independently of the         *)
(* operators above.                                                        *)

FieldOf(k) ==
    CASE k \in {KeyHl, KeyXmpHl} -> "hl"
      [] k \in {KeyCi, KeyXmpCi} -> "ci"
      [] OTHER -> "other"

\* the value current metadata holds for the field of key k: the entry that
\* comes last among the keys spelling that field, NoneV when there is none
CurrentOf(md, k) ==
    LET hits == {i \in 1..Len(md) : FieldOf(md[i][1]) = FieldOf(k)}
    IN  IF hits = {} THEN NoneV
        ELSE md[CHOOSE i \in hits : \A j \in hits : j <= i][2]

\* absent, empty string, empty list
EmptyValues == {NoneV, Str(<<>>), List(<<>>)}

Mentions(x) == IsStr(x) /\ \E i \in 1..Len(x.v) : x.v[i] \in {PhYear, PhSubdir}

\* values the reconciler treats as not set although they are not empty: a
\* string that holds a placeholder, a one-element list around an empty value
NotSetValues == {StrYear, StrSubdir, StrBoth, List(<<Str(<<>>)>>)}

IsStructField(e) == e[1] # KeySourceFile /\ IsDict(e[2])

IsPlainField(e) == e[1] # KeySourceFile /\ ~IsDict(e[2])

InPatch(patch, k) == \E i \in 1..Len(patch) : patch[i][1] = k

PatchOf(patch, k) == patch[CHOOSE i \in 1..Len(patch) : patch[i][1] = k][2]

SubStaged(patch, k, sk) == InPatch(patch, k) /\ sk \in DOMAIN PatchOf(patch, k).v

\* the mapping stored under exactly key k, the empty mapping when there is none
OwnStruct(md, k) ==
    LET hits == {i \in 1..Len(md) : md[i][1] = k /\ IsDict(md[i][2])}
    IN  IF hits = {} THEN <<>> ELSE md[CHOOSE i \in hits : TRUE][2].v

SubHeld(struct, sk) == sk \in DOMAIN struct /\ struct[sk] \notin EmptyValues

\* C1 as stated: when every templated field (by normalized-key lookup) and
\* every templated sub-field of a structured field holds a non-empty value,
\* the patch is empty.
C1_NonEmptyMeansEmptyPatch ==
    rpc = "done" =>
        ((\A i \in 1..Len(template) :
            /\ IsPlainField(template[i]) =>
                  CurrentOf(metadata, template[i][1]) \notin EmptyValues
            /\ IsStructField(template[i]) =>
                  /\ IsDict(CurrentOf(metadata, template[i][1]))
                  /\ \A sk \in DOMAIN template[i][2].v :
                        SubHeld(CurrentOf(metadata, template[i][1]).v, sk))
         => updates = <<>>)

\* C1 amended: a scalar or list field whose current value (by normalized-key
\* lookup) is non-empty, holds no placeholder and is not a one-element list
\* around an empty value is not in the patch; a structured field all of whose
\* templated sub-fields are non-empty in the mapping stored under the
\* field's own key is not in the patch; when that is so for every templated
\* field the patch is empty.
C1_SetFieldsAreNotPatched ==
    rpc = "done" =>
        \A i \in 1..Len(template) :
            /\ (IsPlainField(template[i])
                  /\ CurrentOf(metadata, template[i][1]) \notin EmptyValues \cup NotSetValues)
                  => ~InPatch(updates, template[i][1])
            /\ (IsStructField(template[i])
                  /\ \A sk \in DOMAIN template[i][2].v :
                        SubHeld(OwnStruct(metadata, template[i][1]), sk))
                  => ~InPatch(updates, template[i][1])

\* the value sits under a differently spelled key and nothing is patched
C1_Witness ==
    /\ rpc = "done"
    /\ template = <<<<KeySourceFile, Str(<<"f">>)>>, <<KeyXmpHl, StrBoth>>>>
    /\ metadata = <<<<KeyHl, StrV>>>>
    /\ updates = <<>>

\* C2 as stated: no value placed in the patch contains {year} or
\* {subdir_text}.
C2_NoPlaceholderInPatch ==
    rpc = "done" =>
        \A i \in 1..Len(updates) :
            LET x == updates[i][2]
            IN  /\ ~Mentions(x)
                /\ IsList(x) => \A j \in 1..Len(x.v) : ~Mentions(x.v[j])
                /\ IsDict(x) => \A sk \in DOMAIN x.v : ~Mentions(x.v[sk])

\* C2 amended: a scalar or sub-field value in the patch contains a placeholder
\* only when it is the template's own unsubstituted value (some placeholder
\* could not be resolved); a string item of a list in the patch never
\* contains one.
C2_PlaceholderOnlyAsTemplateLiteral ==
    rpc = "done" =>
        \A i \in 1..Len(updates) :
            LET x == updates[i][2]
                d == PatchOf(template, updates[i][1])
            IN  /\ Mentions(x) => x = d
                /\ IsList(x) => \A j \in 1..Len(x.v) : ~Mentions(x.v[j])
                /\ IsDict(x) => \A sk \in DOMAIN x.v : Mentions(x.v[sk]) => x.v[sk] = d.v[sk]

\* the year is known but the headline is not: the literal is staged
C2_Witness ==
    /\ rpc = "done"
    /\ Truthy(year) /\ ~Truthy(headline)
    /\ updates = <<<<KeyXmpHl, StrBoth>>>>

\* C3: update_metadata never raises, whatever the shapes of the template
\* value and of the current value of the same field.
C3_NeverRaises == rpc \notin {"raised", "raised2"}

\* the existing structured value as C7 describes it: the one under the
\* field's own key or, when that key is absent, under the key with its
\* namespace prefix stripped; anything but a mapping counts as empty
ClaimedStruct(md, k) ==
    LET src == IF \E i \in 1..Len(md) : md[i][1] = k THEN k
               ELSE IF k[1] = "XMP-" THEN Tail(k) ELSE k
    IN  OwnStruct(md, src)

\* C7: a sub-key of a structured template field is staged if and only if its
\* value in the existing structured value is missing, empty string or empty
\* list, and the field is in the patch only if a sub-key was staged.
C7_SubKeyStagedIffEmpty ==
    rpc = "done" =>
        \A i \in 1..Len(template) :
            IsStructField(template[i]) =>
                /\ \A sk \in DOMAIN template[i][2].v :
                      SubStaged(updates, template[i][1], sk)
                        <=> ~SubHeld(ClaimedStruct(metadata, template[i][1]), sk)
                /\ InPatch(updates, template[i][1])
                      => DOMAIN PatchOf(updates, template[i][1]).v # {}

\* C10 as stated: after the patch is applied, a second run with the same
\* template, year and headline computes an empty patch.
C10_SecondPatchEmpty == rpc = "done2" => updates = <<>>

\* another key of the same field comes after k in the metadata
Shadowed(md, k) ==
    \E i, j \in 1..Len(md) :
        i < j /\ md[i][1] = k /\ FieldOf(md[j][1]) = FieldOf(k)

\* the mappings the first patch wrote under the keys the sub-fields of k are
\* looked up in: k itself and k without its XMP- prefix
WrittenStructs(patch, k) ==
    {PatchOf(patch, kk).v :
        kk \in {c \in {k} \cup (IF k[1] = "XMP-" THEN {Tail(k)} ELSE {}) :
                   InPatch(patch, c) /\ IsDict(PatchOf(patch, c))}}

\* C10 amended: a scalar or list field is in the second patch only if it was
\* in the first and the value written for it was empty, a one-element list
\* around an empty value or a string still holding a placeholder, or its key
\* is followed in the metadata by another key of the same field; a sub-field
\* of a structured field is in the second patch only if the first patch wrote
\* the mapping it is looked up in without that sub-field or with an empty
\* value for it.
C10_SecondPatchOnlyRepeats ==
    rpc = "done2" =>
        \A i \in 1..Len(updates) :
            LET k == updates[i][1]
                x == updates[i][2]
            IN  /\ ~IsDict(x) =>
                      /\ InPatch(prev, k)
                      /\ \/ PatchOf(prev, k) \in EmptyValues \cup {List(<<Str(<<>>)>>)}
                         \/ Mentions(PatchOf(prev, k))
                         \/ Shadowed(metadata, k)
                /\ IsDict(x) =>
                      \A sk \in DOMAIN x.v :
                          \E w \in WrittenStructs(prev, k) : ~SubHeld(w, sk)

\* a resolved value was written and the second run has nothing left to do
C10_Witness ==
    /\ rpc = "done2"
    /\ prev = <<<<KeyXmpHl, Str(<<"2", "0", "0", "6", " ", "V">>)>>>>
    /\ metadata = <<<<KeyHl, Str(<<>>)>>,
                    <<KeyXmpHl, Str(<<"2", "0", "0", "6", " ", "V">>)>>>>
    /\ updates = <<>>

----------------------------------------------------------------------------
(* Claims about the walk *)

\* C8: once the run has started, no error during per-file work ends it: a
\* failing read or write is logged and the walk goes on with the next file.
C8_NoErrorEndsRun == wpc # "crashed"

\* directory x is d or lies below d
RECURSIVE Under(_, _)
Under(x, d) == x = d \/ (x # "root" /\ Under(Parent(x), d))

\* the eligible files in d and in its sub-directories that no skip keyword
\* excludes
EligibleUnder(d) ==
    {f \in FileIds : Eligible(f[2]) /\ Under(f[1], d)
                       /\ ~SkipReceived(f[1]) /\ ~SkipMobile(f[1])}

\* C9, first half: a directory holds the checkpoint marker only if every
\* eligible file in it and below it has been passed to update_metadata.
C9_MarkerImpliesAllPassed == \A d \in markers : EligibleUnder(d) \subseteq passed

\* C9: a directory that the walk is about to skip because it holds the
\* checkpoint marker has no eligible file, in it or below it, that was never
\* passed to update_metadata.
C9_SkippedDirectoryIsCovered ==
    (wpc = "walk" /\ stack # <<>> /\ is_directory_completed(Head(stack)))
        => EligibleUnder(Head(stack)) \subseteq passed

====
